---- MODULE Spec2Model ----
(***************************************************************************)
(* Model of the Infection component (infection.py): the in-place floor of  *)
(* I, the clamped switch exponentials, compute, compute_partials, and the  *)
(* KS aggregation function with the gradient cached in self.dagg_i.        *)
(*                                                                         *)
(* Numbers are exact rationals <<numerator, denominator>>.  numpy arrays   *)
(* are sequences of rationals; an array operation whose operands cannot be *)
(* broadcast yields the empty sequence, which stands for the ValueError    *)
(* numpy raises, and every operation on it yields it again.                *)
(***************************************************************************)
EXTENDS Integers, Sequences, FiniteSets, TLC

----------------------------------------------------------------------------
(* Bounds of the model. *)

\* number of nodes of a batch (the option num_nodes)
NumNodes == 2

\* stand-in for the 1.e10 ceiling of the switch exponentials, scaled to the
\* exponent range the 32-bit integers of the model checker can carry
ExpCeil == 8

\* np.exp underflows to 0 below 2^-ExpUnderflow (float64 does near e^-745)
ExpUnderflow == 6

\* np.exp overflows to inf from 2^ExpOverflow on (float64 does near e^709)
ExpOverflow == 6

----------------------------------------------------------------------------
(* Exact rational arithmetic. *)

Abs(n) == IF n < 0 THEN -n ELSE n

RECURSIVE GCD(_, _)
GCD(a, b) == IF b = 0 THEN a ELSE GCD(b, a % b)

\* the rational n/d in lowest terms, d > 0
Rat(n, d) ==
    LET g == GCD(Abs(n), Abs(d))
        s == IF d < 0 THEN -1 ELSE 1
    IN  <<s * (n \div g), s * (d \div g)>>

Zero == <<0, 1>>
One == <<1, 1>>
\* the value inf that np.exp overflows to; it only ever meets a comparison
Inf == <<1, 0>>

RNeg(x) == <<-x[1], x[2]>>

RAdd(x, y) ==
    LET g == GCD(x[2], y[2])
    IN  Rat(x[1] * (y[2] \div g) + y[1] * (x[2] \div g), (x[2] \div g) * y[2])

RSub(x, y) == RAdd(x, RNeg(y))

RMul(x, y) ==
    LET g1 == GCD(Abs(x[1]), y[2])
        g2 == GCD(Abs(y[1]), x[2])
    IN  IF x[1] = 0 \/ y[1] = 0 THEN Zero
        ELSE <<(x[1] \div g1) * (y[1] \div g2), (x[2] \div g2) * (y[2] \div g1)>>

\* y # 0
RDiv(x, y) == RMul(x, IF y[1] < 0 THEN <<-y[2], -y[1]>> ELSE <<y[2], y[1]>>)

RLt(x, y) == x[1] * y[2] < y[1] * x[2]

RLe(x, y) == x[1] * y[2] <= y[1] * x[2]

\* floor of a rational
RFloor(x) == x[1] \div x[2]

RECURSIVE Pow2(_)
Pow2(k) == IF k = 0 THEN 1 ELSE 2 * Pow2(k - 1)

----------------------------------------------------------------------------
(* np.exp and np.log.  The transcendental functions are carried in base 2  *)
(* with linear interpolation between the integer exponents, which keeps    *)
(* every value rational: Exp is positive and increasing, Exp(0) = 1,       *)
(* Log is increasing on [1, oo), Log(1) = 0 and Log(Exp(x)) = x.           *)

Exp(x) ==
    LET k == RFloor(x)
        m == RAdd(One, RSub(x, <<k, 1>>))
    IN  IF k >= ExpOverflow THEN Inf
        ELSE IF k < -ExpUnderflow THEN Zero
        ELSE IF k >= 0 THEN RMul(<<Pow2(k), 1>>, m)
        ELSE RMul(<<1, Pow2(-k)>>, m)

RECURSIVE Log2Floor(_)
Log2Floor(s) == IF RLt(s, <<2, 1>>) THEN 0 ELSE 1 + Log2Floor(RDiv(s, <<2, 1>>))

\* s >= 1
Log(s) ==
    LET k == Log2Floor(s)
    IN  RAdd(<<k, 1>>, RSub(RDiv(s, <<Pow2(k), 1>>), One))

----------------------------------------------------------------------------
(* numpy arrays with broadcasting. *)

\* the exception an ill-shaped array operation raises
Raise == <<>>

Raised(x) == Len(x) = 0

\* element i of x inside an operation that broadcasts a length-1 array
At(x, i) == IF Len(x) = 1 THEN x[1] ELSE x[i]

\* the common shape of two operands, 0 when there is none
BLen(x, y) ==
    IF Len(x) = 0 \/ Len(y) = 0 THEN 0
    ELSE IF Len(x) = Len(y) THEN Len(x)
    ELSE IF Len(x) = 1 THEN Len(y)
    ELSE IF Len(y) = 1 THEN Len(x)
    ELSE 0

\* an array built element by element, as the tuple of its values
Array(f, n) == SubSeq(f, 1, n)

\* the elementwise operations, each over the broadcast shape of its operands
VAdd(x, y) ==
    LET n == BLen(x, y) IN Array([i \in 1..n |-> RAdd(At(x, i), At(y, i))], n)

VSub(x, y) ==
    LET n == BLen(x, y) IN Array([i \in 1..n |-> RSub(At(x, i), At(y, i))], n)

VMul(x, y) ==
    LET n == BLen(x, y) IN Array([i \in 1..n |-> RMul(At(x, i), At(y, i))], n)

VDiv(x, y) ==
    LET n == BLen(x, y) IN Array([i \in 1..n |-> RDiv(At(x, i), At(y, i))], n)

x (+) y == VAdd(x, y)
x (-) y == VSub(x, y)
x (.) y == VMul(x, y)
x (/) y == VDiv(x, y)
VNeg(x) == Array([i \in 1..Len(x) |-> RNeg(x[i])], Len(x))
VSq(x) == x (.) x
VExp(x) == Array([i \in 1..Len(x) |-> Exp(x[i])], Len(x))
VLog(x) == Array([i \in 1..Len(x) |-> Log(x[i])], Len(x))
\* a Python scalar as an operand
Sc(n) == << <<n, 1>> >>

RECURSIVE RSum(_)
RSum(x) == IF Len(x) = 0 THEN Zero ELSE RAdd(Head(x), RSum(Tail(x)))

RECURSIVE RMax(_)
RMax(x) ==
    IF Len(x) = 1 THEN x[1]
    ELSE LET m == RMax(Tail(x)) IN IF RLt(m, Head(x)) THEN Head(x) ELSE m

----------------------------------------------------------------------------
(* KS, infection.py lines 4-22, on a one-dimensional g.  dKS_drho is       *)
(* computed by the source and dropped; it is not part of the result.       *)

\* KS with the sign of the log term flipped
KS_LogSubtracted(g, rho) ==
    LET g_max == << RMax(g) >>
        g_diff == g (-) g_max
        exponents == VExp(<< rho >> (.) g_diff)
        summation == << RSum(exponents) >>
        value == g_max (-) ((Sc(1) (/) << rho >>) (.) VLog(summation))
        dsum_dg == << rho >> (.) exponents
        dKS_dsum == Sc(1) (/) (<< rho >> (.) summation)
        dKS_dg == dKS_dsum (.) dsum_dg
    IN  [value |-> value, grad |-> dKS_dg]

KS(g, rho) ==
    LET g_max == << RMax(g) >>
        g_diff == g (-) g_max
        exponents == VExp(<< rho >> (.) g_diff)
        summation == << RSum(exponents) >>
        value == g_max (+) ((Sc(1) (/) << rho >>) (.) VLog(summation))
        dsum_dg == << rho >> (.) exponents
        dKS_dsum == Sc(1) (/) (<< rho >> (.) summation)
        dKS_dg == dKS_dsum (.) dsum_dg
    IN  [value |-> value, grad |-> dKS_dg]

\* the default sharpness of KS
Rho == 50

----------------------------------------------------------------------------
(* The state. *)

VARIABLES
    inputs,     \* the input arrays the framework hands to both methods
    outputs,    \* the output arrays compute writes
    jacobian,   \* the sub-Jacobians compute_partials writes
    dagg_i,     \* self.dagg_i; the empty sequence while the attribute is unset
    entry,      \* the input arrays as they were when the last call began
    last,       \* the last operation: "setup", "set", "compute", "partials"
    raised,     \* the exception the last call ended with, "" when it returned
    nset,       \* number of input writes so far
    ks_args,    \* <<g, rho>> of a direct call of KS
    ks_ret      \* what that call returned; the empty sequence before it

vars == <<inputs, outputs, jacobian, dagg_i, entry, last, raised, nset,
          ks_args, ks_ret>>

Nodes == 1..NumNodes

PerNode == {"S", "E", "I", "R", "D", "alpha", "beta", "sigma", "gamma",
            "epsilon", "mu", "t"}

OutputNames == {"Sdot", "Edot", "Idot", "Rdot", "Ddot", "theta", "max_I",
                "sigma_sq"}

\* the (of, wrt) pairs setup declares, lines 95-110
JacNames == {
    "Sdot_beta", "Sdot_sigma", "Sdot_epsilon", "Sdot_S", "Sdot_I", "Sdot_R",
    "Sdot_t", "Sdot_a", "Sdot_t_on", "Sdot_t_off",
    "Edot_beta", "Edot_sigma", "Edot_S", "Edot_E", "Edot_I", "Edot_t",
    "Edot_alpha", "Edot_a", "Edot_t_on", "Edot_t_off",
    "Idot_gamma", "Idot_E", "Idot_I", "Idot_alpha", "Idot_mu",
    "Rdot_gamma", "Rdot_epsilon", "Rdot_I", "Rdot_R",
    "Ddot_mu", "Ddot_I",
    "theta_beta", "theta_sigma", "theta_t", "theta_a", "theta_t_on",
    "theta_t_off",
    "sigma_sq_sigma", "max_I_I"}

Zeros(n) == Array([i \in 1..n |-> Zero], n)

\* the output values setup declares, lines 49-53 and 87-91
SetupOutputs ==
    [k \in OutputNames |-> IF k = "max_I" THEN << Zero >> ELSE Zeros(NumNodes)]

SetupJacobian == [k \in JacNames |-> Zeros(NumNodes)]

----------------------------------------------------------------------------
(* The two numerical safeguards. *)

\* the cut-off of lines 116 and 147
IFloor == <<1, 10000>>

\* I[np.where(I < 1e-4)] = 0.0
FloorOne(x) == IF RLt(x, IFloor) THEN Zero ELSE x

FloorI(I) == Array([i \in 1..Len(I) |-> FloorOne(I[i])], Len(I))

\* d[np.where(d > 1.e10)] = 1.e10
ClampOne(x) == IF RLt(<<ExpCeil, 1>>, x) THEN <<ExpCeil, 1>> ELSE x

Clamp(d) == Array([i \in 1..Len(d) |-> ClampOne(d[i])], Len(d))

\* lines 120, 123 and 151, 154
Dton(b) == Clamp(VExp(VNeg(b.a) (.) (b.t (-) b.t_on)))

\* lines 121, 124 and 152, 155
Dtoff(b) == Clamp(VExp(VNeg(b.a) (.) (VNeg(b.t) (+) b.t_off)))

\* line 126
SwitchY(d_ton, d_toff) ==
    ((Sc(1) (/) (Sc(1) (+) d_ton)) (.) Sc(1)) (/) (Sc(1) (+) d_toff)

\* line 128
Theta(b, y) == ((b.beta (-) b.sigma) (.) y) (+) ((Sc(1) (-) y) (.) b.beta)

----------------------------------------------------------------------------
(* The statements of compute and compute_partials, in source order, on the *)
(* batch b whose I is already floored.  A step is <<name, value>>; the     *)
(* name is "" for a local of the method.  The sub-expressions the source   *)
(* repeats in every formula are named once; the formulas are otherwise     *)
(* written operator by operator as the source writes them.                 *)

\* Sdot with the batch total of I in place of the node's own I
SdotOf_TotalI(b, theta) ==
    ((VNeg(theta) (.) b.S) (.) << RSum(b.I) >>) (+) (b.epsilon (.) b.R)

\* line 137
SdotOf(b, theta) == ((VNeg(theta) (.) b.S) (.) b.I) (+) (b.epsilon (.) b.R)

\* line 138
EdotOf(b, theta) == ((theta (.) b.S) (.) b.I) (-) (b.alpha (.) b.E)

\* line 139
IdotOf(b) == ((b.alpha (.) b.E) (-) (b.gamma (.) b.I)) (-) (b.mu (.) b.I)

\* line 140
RdotOf(b) == (b.gamma (.) b.I) (-) (b.epsilon (.) b.R)

\* Ddot with the recovery rate in place of the death rate
DdotOf_Gamma(b) == b.gamma (.) b.I

\* line 141
DdotOf(b) == b.mu (.) b.I

\* lines 131-141, with the locals of lines 120-130 as parameters
OutputSteps(b, d_ton, d_toff, y, theta, agg_i) ==
    << <<"", d_ton>>,
       <<"", d_toff>>,
       <<"", y>>,
       <<"", theta>>,
       <<"", agg_i>>,
       <<"max_I", << RSum(agg_i) >> >>,
       <<"sigma_sq", VSq(b.sigma)>>,
       <<"theta", theta>>,
       <<"Sdot", SdotOf(b, theta)>>,
       <<"Edot", EdotOf(b, theta)>>,
       <<"Idot", IdotOf(b)>>,
       <<"Rdot", RdotOf(b)>>,
       <<"Ddot", DdotOf(b)>> >>

\* lines 126-130
SwitchSteps(b, d_ton, d_toff, y) ==
    OutputSteps(b, d_ton, d_toff, y, Theta(b, y), KS(b.I, <<Rho, 1>>).value)

\* lines 120-141
ComputeSteps(b) ==
    LET d_ton == Dton(b)
        d_toff == Dtoff(b)
    IN  SwitchSteps(b, d_ton, d_toff, SwitchY(d_ton, d_toff))

\* the step of ComputeSteps that assigns self.dagg_i, line 130
KSStep == 5

\* d(Sdot)/d(t_on) with the sign of its second term flipped
SdotTon_SignSlip(IS, abon, abson) == IS (.) (VNeg(abon) (-) abson)

\* line 164
SdotTon(IS, abon, abson) == IS (.) (VNeg(abon) (+) abson)

\* d(Idot)/dI with the sign of mu flipped
IdotI_SignSlip(b) == VNeg(b.gamma) (+) b.mu

\* line 182
IdotI(b) == VNeg(b.gamma) (-) b.mu

\* lines 157-203: the assignments, over the sub-expressions named below
JacobianSteps(b, dagg, d_ton, d_toff, pq, IS, aon, aoff, bson, bsoff, abon, aboff, abson, absoff, dyt, boff, bsy) ==
    << <<"", d_ton>>,
       <<"", d_toff>>,
       <<"Sdot_beta", VNeg(b.I) (.) b.S>>,
       <<"Sdot_sigma", IS (/) pq>>,
       <<"Sdot_epsilon", b.R>>,
       <<"Sdot_S", b.I (.) (VNeg(boff) (-) bsy)>>,
       <<"Sdot_I", b.S (.) (VNeg(boff) (-) bsy)>>,
       <<"Sdot_R", b.epsilon>>,
       <<"Sdot_a", IS (.) (((VNeg(b.beta) (.) (aon (+) aoff)) (+) bson) (+) bsoff)>>,
       <<"Sdot_t_on", SdotTon(IS, abon, abson)>>,
       <<"Sdot_t_off", IS (.) (aboff (-) absoff)>>,
       <<"Sdot_t", IS (.) ((VNeg(abson) (+) absoff) (-) (b.beta (.) dyt))>>,
       <<"Edot_beta", IS>>,
       <<"Edot_sigma", VNeg(IS) (/) pq>>,
       <<"Edot_S", b.I (.) (boff (+) bsy)>>,
       <<"Edot_E", VNeg(b.alpha)>>,
       <<"Edot_I", b.S (.) (boff (+) bsy)>>,
       <<"Edot_a", IS (.) (((b.beta (.) (aon (+) aoff)) (-) bson) (-) bsoff)>>,
       <<"Edot_t_on", IS (.) (abon (-) abson)>>,
       <<"Edot_t_off", IS (.) (VNeg(aboff) (+) absoff)>>,
       <<"Edot_t", IS (.) ((abson (-) absoff) (+) (b.beta (.) dyt))>>,
       <<"Edot_alpha", VNeg(b.E)>>,
       <<"Idot_mu", VNeg(b.I)>>,
       <<"Idot_gamma", VNeg(b.I)>>,
       <<"Idot_E", b.alpha>>,
       <<"Idot_I", IdotI(b)>>,
       <<"Idot_alpha", b.E>>,
       <<"Rdot_gamma", b.I>>,
       <<"Rdot_epsilon", VNeg(b.R)>>,
       <<"Rdot_I", b.gamma>>,
       <<"Rdot_R", VNeg(b.epsilon)>>,
       <<"Ddot_mu", b.I>>,
       <<"Ddot_I", b.mu>>,
       <<"theta_beta", Sc(1)>>,
       <<"theta_sigma", VNeg(Sc(1)) (/) pq>>,
       <<"theta_a", ((b.beta (.) (aon (+) aoff)) (-) bson) (-) bsoff>>,
       <<"theta_t_on", abon (-) abson>>,
       <<"theta_t_off", VNeg(aboff) (+) absoff>>,
       <<"theta_t", (abson (-) absoff) (+) (b.beta (.) dyt)>>,
       <<"max_I_I", dagg>>,
       <<"sigma_sq_sigma", Sc(2) (.) b.sigma>> >>

\* the sub-expressions the formulas of lines 157-199 repeat:
\*   pq      ((1 + d_toff)*(1 + d_ton))
\*   aon     (-t + t_on)*d_ton/den1         aoff    (t - t_off)*d_toff/den2
\*   bson    (beta - sigma)*(-t + t_on)*d_ton/den1, bsoff its t_off twin
\*   abon    a*beta*d_ton/den1              aboff   a*beta*d_toff/den2
\*   abson   a*(beta - sigma)*d_ton/den1    absoff  a*(beta - sigma)*d_toff/den2
\*   dyt     (-a*d_ton/den1 + a*d_toff/den2)
\*   boff    beta*(1 - 1/pq)                bsy     (beta - sigma)/pq
\* with den1 = ((1 + d_toff)*(1 + d_ton)**2), den2 = ((1 + d_toff)**2*(1 + d_ton))
JacobianTerms(b, dagg, d_ton, d_toff, pq, den1, den2, bs) ==
    JacobianSteps(b, dagg, d_ton, d_toff, pq,
        b.I (.) b.S,
        ((VNeg(b.t) (+) b.t_on) (.) d_ton) (/) den1,
        ((b.t (-) b.t_off) (.) d_toff) (/) den2,
        ((bs (.) (VNeg(b.t) (+) b.t_on)) (.) d_ton) (/) den1,
        ((bs (.) (b.t (-) b.t_off)) (.) d_toff) (/) den2,
        ((b.a (.) b.beta) (.) d_ton) (/) den1,
        ((b.a (.) b.beta) (.) d_toff) (/) den2,
        ((b.a (.) bs) (.) d_ton) (/) den1,
        ((b.a (.) bs) (.) d_toff) (/) den2,
        ((VNeg(b.a) (.) d_ton) (/) den1) (+) ((b.a (.) d_toff) (/) den2),
        b.beta (.) (Sc(1) (-) (Sc(1) (/) pq)),
        bs (/) pq)

SwitchTerms(b, dagg, d_ton, d_toff) ==
    JacobianTerms(b, dagg, d_ton, d_toff,
        (Sc(1) (+) d_toff) (.) (Sc(1) (+) d_ton),
        (Sc(1) (+) d_toff) (.) VSq(Sc(1) (+) d_ton),
        VSq(Sc(1) (+) d_toff) (.) (Sc(1) (+) d_ton),
        b.beta (-) b.sigma)

\* lines 151-203; dagg is self.dagg_i
PartialsSteps(b, dagg) == SwitchTerms(b, dagg, Dton(b), Dtoff(b))

\* the first step that raises, Len(steps) + 1 when none does
RECURSIVE FirstRaise(_, _)
FirstRaise(steps, k) ==
    IF k > Len(steps) THEN k
    ELSE IF Raised(steps[k][2]) THEN k
    ELSE FirstRaise(steps, k + 1)

\* the container after the assignments before step fr
Written(old, steps, fr) ==
    [k \in DOMAIN old |->
        IF \E j \in 1..(fr - 1) : steps[j][1] = k
        THEN steps[CHOOSE j \in 1..(fr - 1) : steps[j][1] = k][2]
        ELSE old[k]]

----------------------------------------------------------------------------
(* The operations. *)

\* the batch as passed, the cut-off not applied
Floored_NoFloor(b) == b

\* lines 116 and 147
Floored(b) == [b EXCEPT !.I = FloorI(b.I)]

\* the effect of compute, given the floored batch, its steps and the first
\* step that raises
ComputeEnd(b, steps, fr) ==
    /\ inputs' = b
    /\ outputs' = Written(outputs, steps, fr)
    /\ dagg_i' = IF fr > KSStep THEN KS(b.I, <<Rho, 1>>).grad ELSE dagg_i
    /\ raised' = IF fr > Len(steps) THEN "" ELSE "ValueError"
    /\ entry' = inputs
    /\ last' = "compute"
    /\ UNCHANGED <<jacobian, nset, ks_args, ks_ret>>

ComputeRun(b, steps) == ComputeEnd(b, steps, FirstRaise(steps, 1))

\* Infection.compute, lines 112-141.  The floor of line 116 writes into the
\* array the caller passed; an exception leaves the earlier writes in place.
Compute == ComputeRun(Floored(inputs), ComputeSteps(Floored(inputs)))

PartialsEnd(b, steps, fr) ==
    /\ inputs' = b
    /\ jacobian' = Written(jacobian, steps, fr)
    /\ raised' = IF fr > Len(steps) THEN ""
                 ELSE IF steps[fr][1] = "max_I_I" THEN "AttributeError"
                 ELSE "ValueError"
    /\ entry' = inputs
    /\ last' = "partials"
    /\ UNCHANGED <<outputs, dagg_i, nset, ks_args, ks_ret>>

PartialsRun(b, steps) == PartialsEnd(b, steps, FirstRaise(steps, 1))

\* Infection.compute_partials, lines 143-203.  The floor of line 147 writes
\* into the caller's array too; line 201 reads self.dagg_i, which only
\* compute assigns.
ComputePartials ==
    PartialsRun(Floored(inputs), PartialsSteps(Floored(inputs), dagg_i))

\* a direct call of KS(g, rho)
KSCall ==
    /\ ~ks_ret.done
    /\ LET r == KS(ks_args[1], ks_args[2])
       IN  ks_ret' = [done |-> TRUE, value |-> r.value, grad |-> r.grad]
    /\ UNCHANGED <<inputs, outputs, jacobian, dagg_i, entry, last, raised, nset,
                   ks_args>>

----------------------------------------------------------------------------
(* Input values. *)

Q(n, d) == <<n, d>>

Node(S, E, I, R, D, alpha, beta, sigma, gamma, epsilon, mu, t) ==
    [S |-> S, E |-> E, I |-> I, R |-> R, D |-> D, alpha |-> alpha,
     beta |-> beta, sigma |-> sigma, gamma |-> gamma, epsilon |-> epsilon,
     mu |-> mu, t |-> t]

\* per-node input values: I above, at and below the cut-off; t on both
\* sides of the switch times; zero and non-zero rates
Profiles == {
    Node(Q(2,1), Q(3,1), Q(1,1),     Q(5,1), Q(1,1), Q(1,2), Q(3,1), Q(1,1),
         Q(2,1), Q(1,1), Q(1,1), Q(0,1)),
    Node(Q(3,1), Q(1,1), Q(1,20000), Q(2,1), Q(0,1), Q(2,1), Q(2,1), Q(1,1),
         Q(1,1), Q(0,1), Q(2,1), Q(1,1)),
    Node(Q(1,1), Q(2,1), Q(1,10000), Q(0,1), Q(3,1), Q(1,1), Q(1,1), Q(2,1),
         Q(3,1), Q(2,1), Q(0,1), Q(2,1)),
    Node(Q(5,1), Q(1,1), Q(2,1),     Q(1,1), Q(2,1), Q(3,1), Q(1,2), Q(1,1),
         Q(2,1), Q(0,1), Q(0,1), Q(3,1)),
    Node(Q(2,1), Q(1,1), Q(3,1),     Q(1,1), Q(1,1), Q(1,1), Q(2,1), Q(3,1),
         Q(1,1), Q(1,1), Q(1,1), Q(5,2)) }

\* <<a, t_on, t_off>>; the last one has t_on > t_off, which is not enforced
Switches == { <<Q(1,1), Q(1,1), Q(2,1)>>,
              <<Q(2,1), Q(2,1), Q(3,1)>>,
              <<Q(2,1), Q(3,1), Q(1,1)>> }

\* the batch of the nodes ns (a sequence of profiles) and the switch w
Batch(ns, w) ==
    [f \in PerNode \cup {"a", "t_on", "t_off"} |->
        IF f = "a" THEN << w[1] >>
        ELSE IF f = "t_on" THEN << w[2] >>
        ELSE IF f = "t_off" THEN << w[3] >>
        ELSE Array([i \in 1..Len(ns) |-> ns[i][f]], Len(ns))]

Batches == {Batch(ns, w) : ns \in [Nodes -> Profiles], w \in Switches}

NoKS == [done |-> FALSE, value |-> <<>>, grad |-> <<>>]

\* the component after setup, lines 29-110, with the inputs the caller set
AfterSetup(b) ==
    /\ inputs = b
    /\ outputs = SetupOutputs
    /\ jacobian = SetupJacobian
    /\ dagg_i = <<>>
    /\ entry = b
    /\ last = "setup"
    /\ raised = ""
    /\ nset = 0

----------------------------------------------------------------------------
(* Spec: the component from setup on; the caller writes new inputs between *)
(* calls of compute and compute_partials.                                  *)

\* number of input writes the model follows
MaxSets == 1

\* the caller writes the batch b into the input arrays
SetInputs(b) ==
    /\ nset < MaxSets
    /\ inputs' = b
    /\ nset' = nset + 1
    /\ last' = "set"
    /\ UNCHANGED <<outputs, jacobian, dagg_i, entry, raised, ks_args, ks_ret>>

\* the input values setup declares, lines 33-85
SetupInputs ==
    [f \in PerNode \cup {"a", "t_on", "t_off"} |->
        IF f = "a" THEN << Q(5,1) >>
        ELSE IF f = "t_on" THEN << Q(20,1) >>
        ELSE IF f = "t_off" THEN << Q(60,1) >>
        ELSE Zeros(NumNodes)]

Init ==
    /\ AfterSetup(SetupInputs)
    /\ ks_args = << << One >>, One >>
    /\ ks_ret = NoKS

Next ==
    \/ \E b \in Batches : SetInputs(b)
    \/ Compute
    \/ ComputePartials

Spec == Init /\ [][Next]_vars

----------------------------------------------------------------------------
(* SpecCalls: compute and compute_partials, in any order, on one batch.    *)

InitCalls ==
    /\ \E b \in Batches : AfterSetup(b)
    /\ ks_args = << << One >>, One >>
    /\ ks_ret = NoKS

NextCalls == Compute \/ ComputePartials

SpecCalls == InitCalls /\ [][NextCalls]_vars

----------------------------------------------------------------------------
(* SpecShape: direct calls with one per-node array of another length.      *)

\* the array x cut or repeated to length n
Resize(x, n) == Array([i \in 1..n |-> x[((i - 1) % Len(x)) + 1]], n)

WellShaped(b) == \A f \in PerNode : Len(b[f]) = NumNodes

ShapeBatches ==
    {[b EXCEPT ![f] = Resize(@, n)] :
        b \in {c \in Batches : c.a = << One >>},
        f \in PerNode,
        n \in {1, NumNodes + 1}}

InitShape ==
    /\ \E b \in ShapeBatches : AfterSetup(b)
    /\ ks_args = << << One >>, One >>
    /\ ks_ret = NoKS

SpecShape == InitShape /\ [][NextCalls]_vars

----------------------------------------------------------------------------
(* SpecKS: direct calls of KS on any vector and sharpness, beside compute. *)

\* longest vector passed to KS
MaxLen == 2

KSValues == {Q(-1,1), Q(0,1), Q(1,2), Q(2,1)}

KSRhos == {Q(1,2), Q(1,1), Q(Rho,1)}

KSVectors == UNION {[1..n -> KSValues] : n \in 1..MaxLen}

\* batches with I below, at and above the cut-off
KSBatches ==
    {b \in Batches :
        /\ b.a = << One >>
        /\ \A i \in Nodes : RLe(b.I[i], One)}

InitKS ==
    /\ \E b \in KSBatches : AfterSetup(b)
    /\ \E g \in KSVectors, rho \in KSRhos : ks_args = <<g, rho>>
    /\ ks_ret = NoKS

NextKS == KSCall \/ (last = "setup" /\ Compute)

SpecKS == InitKS /\ [][NextKS]_vars

----------------------------------------------------------------------------
(* What compute returns for a well-shaped batch, as a function of it. *)

ComputeOut(b) ==
    LET steps == ComputeSteps(Floored(b))
    IN  Written(SetupOutputs, steps, Len(steps) + 1)

\* the batch b with h added to input f of node i
Shift(b, f, i, h) == [b EXCEPT ![f][i] = RAdd(@, <<h, 1>>)]

\* the exact derivative at x of a polynomial of degree <= 2, from its values
\* f0, f1, f2 at x, x + 1, x + 2; with f2 = 2*f1 - f0 it is f1 - f0, the
\* exact derivative of a polynomial of degree <= 1
Slope(f0, f1, f2) ==
    RDiv(RSub(RSub(RMul(<<4, 1>>, f1), RMul(<<3, 1>>, f0)), f2), <<2, 1>>)

\* the Jacobian entries the last compute_partials call wrote
JacWritten ==
    IF raised = "" THEN JacNames ELSE JacNames \ {"max_I_I", "sigma_sq_sigma"}

\* <<entry, output, input>> of the declared per-node partials
NodePartials == {
    <<"Sdot_beta", "Sdot", "beta">>, <<"Sdot_sigma", "Sdot", "sigma">>,
    <<"Sdot_epsilon", "Sdot", "epsilon">>, <<"Sdot_S", "Sdot", "S">>,
    <<"Sdot_I", "Sdot", "I">>, <<"Sdot_R", "Sdot", "R">>,
    <<"Edot_beta", "Edot", "beta">>, <<"Edot_sigma", "Edot", "sigma">>,
    <<"Edot_S", "Edot", "S">>, <<"Edot_E", "Edot", "E">>,
    <<"Edot_I", "Edot", "I">>, <<"Edot_alpha", "Edot", "alpha">>,
    <<"Idot_gamma", "Idot", "gamma">>, <<"Idot_E", "Idot", "E">>,
    <<"Idot_I", "Idot", "I">>, <<"Idot_alpha", "Idot", "alpha">>,
    <<"Idot_mu", "Idot", "mu">>,
    <<"Rdot_gamma", "Rdot", "gamma">>, <<"Rdot_epsilon", "Rdot", "epsilon">>,
    <<"Rdot_I", "Rdot", "I">>, <<"Rdot_R", "Rdot", "R">>,
    <<"Ddot_mu", "Ddot", "mu">>, <<"Ddot_I", "Ddot", "I">>,
    <<"theta_beta", "theta", "beta">>, <<"theta_sigma", "theta", "sigma">>,
    <<"sigma_sq_sigma", "sigma_sq", "sigma">> }

NodeInputs == {p[3] : p \in NodePartials}

\* the inputs in which some output of compute has degree 2 (sigma_sq is
\* sigma**2, line 133); every output is of degree <= 1 in each other input
Quadratic == {"sigma"}

\* the entries of node i, for input f, agree with the slopes of compute,
\* whose outputs on the batch are o0
SlopesAgree(o0, f, i) ==
    LET o1 == ComputeOut(Shift(entry, f, i, 1))
        o2 == IF f \in Quadratic THEN ComputeOut(Shift(entry, f, i, 2))
              ELSE [k \in OutputNames |->
                       (o1[k] (+) o1[k]) (-) o0[k]]
    IN  \A p \in NodePartials :
            (p[3] = f /\ p[1] \in JacWritten) =>
                At(jacobian[p[1]], i) = Slope(o0[p[2]][i], o1[p[2]][i], o2[p[2]][i])

PartialsExact(o0) ==
    \A i \in Nodes :
        ~RLt(entry.I[i], IFloor) => \A f \in NodeInputs : SlopesAgree(o0, f, i)

\* C1: after compute_partials, for every node whose I is at or above the
\* cut-off, every declared partial with respect to a per-node input equals
\* the exact derivative of the formula compute evaluates at the same inputs.
C1_PartialsExact == last = "partials" => PartialsExact(ComputeOut(entry))

\* C1 witness: a completed compute_partials call on a batch with a node at
\* the cut-off and a node above it.
C1_Witness ==
    /\ last = "partials"
    /\ raised = ""
    /\ \E i \in Nodes : entry.I[i] = IFloor
    /\ \E i \in Nodes : RLt(IFloor, entry.I[i]) /\ entry.sigma[i] # Zero

----------------------------------------------------------------------------

Sum5(o, i) ==
    RAdd(RAdd(RAdd(RAdd(o.Sdot[i], o.Edot[i]), o.Idot[i]), o.Rdot[i]), o.Ddot[i])

Sum4(o, i) == RAdd(RAdd(RAdd(o.Sdot[i], o.Edot[i]), o.Idot[i]), o.Rdot[i])

\* C2: the five rates compute writes sum to zero at every node, and where
\* epsilon = mu = 0 the first four already do.
C2_Conservation ==
    \A i \in Nodes :
        /\ Sum5(outputs, i) = Zero
        /\ (last = "compute" /\ entry.epsilon[i] = Zero /\ entry.mu[i] = Zero)
               => Sum4(outputs, i) = Zero

\* C2 witness: compute has run on a batch with a node that has deaths
\* (mu > 0, I above the cut-off) and a node with epsilon = mu = 0 and a
\* non-zero transmission term.
C2_Witness ==
    /\ last = "compute"
    /\ \E i \in Nodes : outputs.Ddot[i] # Zero
    /\ \E i \in Nodes :
           /\ entry.epsilon[i] = Zero
           /\ entry.mu[i] = Zero
           /\ outputs.Sdot[i] # Zero

----------------------------------------------------------------------------

\* C3 (as claimed): after any compute_partials call the max_I gradient is
\* defined and is the KS gradient of the floored I of that call's inputs.
C3_GradientOfThisCall ==
    last = "partials" =>
        /\ raised = ""
        /\ jacobian.max_I_I = KS(FloorI(entry.I), <<Rho, 1>>).grad

\* C3 (as claimed, for the calls that return): a compute_partials call that
\* returns has written the KS gradient of the floored I of its own inputs.
C3_GradientNotStale ==
    (last = "partials" /\ raised = "") =>
        jacobian.max_I_I = KS(FloorI(entry.I), <<Rho, 1>>).grad

----------------------------------------------------------------------------

\* C4 (as claimed): compute and compute_partials leave the input arrays as
\* they were on entry.
C4_InputsUnchanged == last \in {"compute", "partials"} => inputs = entry

----------------------------------------------------------------------------

\* C5 (as claimed): for a node whose input I is below the cut-off the
\* partials of Idot, Rdot and Ddot with respect to I are exactly 0.
C5_FlooredIPartialsZero ==
    last = "partials" =>
        \A i \in Nodes :
            RLt(entry.I[i], IFloor) =>
                /\ jacobian.Idot_I[i] = Zero
                /\ jacobian.Rdot_I[i] = Zero
                /\ jacobian.Ddot_I[i] = Zero

----------------------------------------------------------------------------

PerNodeOutputs == OutputNames \ {"max_I"}

\* the batch b with the per-node inputs of node j replaced by the profile p
WithNode(b, j, p) == [f \in DOMAIN b |-> IF f \in PerNode THEN [b[f] EXCEPT ![j] = p[f]] ELSE b[f]]

IValues == {Q(0,1), Q(1,40000), Q(1,10000)}

DValues == {Q(7,1)}

\* the batches that differ from b in the per-node inputs of node j only
Variants(b, j) ==
    {WithNode(b, j, p) : p \in Profiles}
        \cup {[b EXCEPT !.I[j] = v] : v \in IValues}
        \cup {[b EXCEPT !.D[j] = v] : v \in DValues}

\* compute on b2, a variant of the batch in node j, against the outputs o
LocalTo(o, b2, j) ==
    LET o2 == ComputeOut(b2)
    IN  /\ \A k \in PerNodeOutputs : \A i \in Nodes \ {j} : o2[k][i] = o[k][i]
        /\ FloorI(b2.I) = FloorI(entry.I) => o2.max_I = o.max_I
        /\ (\A f \in PerNode \ {"D"} : b2[f] = entry[f]) => o2 = o

\* C6: changing the per-node inputs of one node changes no per-node output
\* of another node; max_I changes only with the floored I vector; D changes
\* nothing.
C6_NodeLocal ==
    (last = "compute" /\ raised = "") =>
        \A j \in Nodes : \A b2 \in Variants(entry, j) : LocalTo(outputs, b2, j)

\* C6 witness: compute has run on a batch of which a variant in node j gives
\* node j another Sdot, and a variant with another I below the cut-off exists.
C6_Witness ==
    /\ last = "compute"
    /\ raised = ""
    /\ \E j \in Nodes : \E b2 \in Variants(entry, j) :
           ComputeOut(b2).Sdot[j] # outputs.Sdot[j]
    /\ \E j \in Nodes : \E b2 \in Variants(entry, j) :
           b2.I # entry.I /\ FloorI(b2.I) = FloorI(entry.I)

----------------------------------------------------------------------------

\* C7: KS(v, rho) is at least max(v) and is max(v) for a single element;
\* max_I is at least the maximum of the floored I.
C7_KSAboveMax ==
    /\ ks_ret.done =>
           /\ RLe(RMax(ks_args[1]), ks_ret.value[1])
           /\ Len(ks_args[1]) = 1 => ks_ret.value[1] = RMax(ks_args[1])
    /\ last = "compute" => RLe(RMax(FloorI(entry.I)), outputs.max_I[1])

\* C7 witness: KS has returned more than the maximum of a vector of several
\* elements, and compute has written a max_I above the largest floored I.
C7_Witness ==
    /\ ks_ret.done
    /\ Len(ks_args[1]) > 1
    /\ RLt(RMax(ks_args[1]), ks_ret.value[1])
    /\ last = "compute"
    /\ \E i \in Nodes : RLt(entry.I[i], IFloor)
    /\ RLt(RMax(FloorI(entry.I)), outputs.max_I[1])

----------------------------------------------------------------------------

\* C8 (as claimed): a call on a batch whose per-node arrays differ in length
\* raises before it writes an output or a Jacobian entry and leaves the
\* inputs as they were.
C8_ShapeChecked ==
    (last \in {"compute", "partials"} /\ ~WellShaped(entry)) =>
        /\ raised # ""
        /\ outputs = SetupOutputs
        /\ jacobian = SetupJacobian
        /\ inputs = entry

----------------------------------------------------------------------------

\* the Jacobian entries that carry a factor I
IProportional == {
    "Sdot_beta", "Sdot_sigma", "Sdot_S", "Sdot_t", "Sdot_a", "Sdot_t_on",
    "Sdot_t_off",
    "Edot_beta", "Edot_sigma", "Edot_S", "Edot_t", "Edot_a", "Edot_t_on",
    "Edot_t_off",
    "Idot_mu", "Idot_gamma", "Rdot_gamma", "Ddot_mu"}

\* C9: for a node whose input I is below the cut-off, compute_partials
\* writes exactly 0 into every I-proportional entry, and compute writes the
\* rates of I = 0.
C9_FloorPropagates ==
    \A i \in Nodes :
        RLt(entry.I[i], IFloor) =>
            /\ last = "partials" => \A k \in IProportional : jacobian[k][i] = Zero
            /\ last = "compute" =>
                   /\ outputs.Sdot[i] = RMul(entry.epsilon[i], entry.R[i])
                   /\ outputs.Edot[i] = RNeg(RMul(entry.alpha[i], entry.E[i]))
                   /\ outputs.Idot[i] = RMul(entry.alpha[i], entry.E[i])
                   /\ outputs.Rdot[i] = RNeg(RMul(entry.epsilon[i], entry.R[i]))
                   /\ outputs.Ddot[i] = Zero

\* C9 witness: both methods have run on a batch with a node whose I is
\* positive and below the cut-off, with non-zero S, beta and mu.
C9_Witness ==
    /\ last = "partials"
    /\ raised = ""
    /\ outputs # SetupOutputs
    /\ \E i \in Nodes :
           /\ RLt(entry.I[i], IFloor)
           /\ entry.S[i] # Zero
           /\ entry.mu[i] # Zero
           /\ entry.beta[i] # Zero

----------------------------------------------------------------------------

Transmission == {
    <<"Sdot_beta", "Edot_beta", "theta_beta">>,
    <<"Sdot_sigma", "Edot_sigma", "theta_sigma">>,
    <<"Sdot_t", "Edot_t", "theta_t">>,
    <<"Sdot_a", "Edot_a", "theta_a">>,
    <<"Sdot_t_on", "Edot_t_on", "theta_t_on">>,
    <<"Sdot_t_off", "Edot_t_off", "theta_t_off">> }

\* C10: the transmission partials obey the chain rule through theta:
\* d(Sdot)/dx = -S*I*d(theta)/dx and d(Edot)/dx = S*I*d(theta)/dx with the
\* floored I, for x among beta, sigma, t, a, t_on, t_off.
C10_ChainRule ==
    last = "partials" =>
        \A i \in Nodes : \A x \in Transmission :
            LET SI == RMul(entry.S[i], FloorI(entry.I)[i])
                dtheta == At(jacobian[x[3]], i)
            IN  /\ jacobian[x[1]][i] = RNeg(RMul(SI, dtheta))
                /\ jacobian[x[2]][i] = RMul(SI, dtheta)

\* the switch exponential of node i before the clamp, lines 120 and 151
RawDton(b, i) == Exp(RMul(RNeg(b.a[1]), RSub(b.t[i], b.t_on[1])))

RawDtoff(b, i) == Exp(RMul(RNeg(b.a[1]), RAdd(RNeg(b.t[i]), b.t_off[1])))

\* C10 witness: compute_partials has run on a batch with a node whose d_ton
\* is clamped and a node whose d_toff is clamped, both with non-zero
\* transmission partials.
C10_Witness ==
    /\ last = "partials"
    /\ raised = ""
    /\ \E i \in Nodes :
           /\ RLt(<<ExpCeil, 1>>, RawDton(entry, i))
           /\ jacobian.Sdot_t[i] # Zero
           /\ jacobian.theta_a[i] # Zero
    /\ \E i \in Nodes :
           /\ RLt(<<ExpCeil, 1>>, RawDtoff(entry, i))
           /\ jacobian.Edot_t_off[i] # Zero

====
